---- MODULE Spec2Model ----
(***************************************************************************)
(* A model of the availability engine of autobooker-mvp-deploy:            *)
(* CalendarService (src/lib/performance-monitor.ts, lines 632-971).        *)
(*                                                                         *)
(* Time is counted in minutes of local time since 00:00 of day 0, and day  *)
(* 0 is a Monday.  A date string YYYY-MM-DD is the index of its day, a     *)
(* time string HH:MM is the pair <<HH, MM>>.                               *)
(***************************************************************************)
EXTENDS Integers, Sequences, FiniteSets, TLC

(***************************************************************************)
(* Bounds of the model.                                                    *)
(***************************************************************************)
MaxCalls == 2        \* createBooking calls in flight
MaxTicks == 1        \* steps of the clock
MaxIter == 19        \* iterations of the slot loop that are followed
MaxMockEvents == 1   \* events the mock calendar makes up for a day
MaxEvents == 2       \* events in a list passed to findConflicts

(***************************************************************************)
(* Program constants.                                                      *)
(***************************************************************************)
MinutesPerDay == 1440
DefaultAdvanceBookingDays == 1
DefaultMaxBookingDays == 60

NULL == "null"
Calls == 1..MaxCalls

Weekdays == <<"monday", "tuesday", "wednesday", "thursday", "friday",
              "saturday", "sunday">>
LongWeekdays == <<"Monday", "Tuesday", "Wednesday", "Thursday", "Friday",
                  "Saturday", "Sunday">>

\* The weekday a day index falls on (the calendar's, not the code's).
CalendarWeekday(day) == Weekdays[(day % 7) + 1]

\* DEFAULT_CONFIG.businessHours.
DefaultBusinessHours ==
  [d \in {Weekdays[i] : i \in 1..7} |->
     CASE d = "friday"   -> [open |-> <<9, 0>>, close |-> <<17, 0>>]
       [] d = "saturday" -> [open |-> <<9, 0>>, close |-> <<13, 0>>]
       [] d = "sunday"   -> [open |-> NULL, close |-> NULL]
       [] OTHER          -> [open |-> <<9, 0>>, close |-> <<18, 0>>]]

DEFAULT_CONFIG ==
  [businessHours      |-> DefaultBusinessHours,
   advanceBookingDays |-> DefaultAdvanceBookingDays,
   maxBookingDays     |-> DefaultMaxBookingDays]

\* { ...base, ...partial }: the fields of partial overwrite those of base.
Merge(base, partial) ==
  [f \in DOMAIN base |-> IF f \in DOMAIN partial THEN partial[f] ELSE base[f]]

(***************************************************************************)
(* Conversions.                                                            *)
(***************************************************************************)
\* "HH:MM".split(':') read as numbers: hour * 60 + minute.
ToMinutes(hhmm) == hhmm[1] * 60 + hhmm[2]

\* new Date(`${date}T${time}:00`): a local date-time.
ParseLocal(date, time) == date * MinutesPerDay + ToMinutes(time)

\* The options object passed to toLocaleDateString at both call sites.
WeekdayOption == "lowercase"

\* A formatter that gave the lower-case name whatever the style.
toLocaleDateString_allLower(day, style) ==
  [threw |-> FALSE, value |-> Weekdays[(day % 7) + 1]]

\* date.toLocaleDateString('en-US', { weekday: style }).  The formatter takes
\* weekday in {narrow, short, long} and raises a RangeError on any other value
\* (ECMA-402, DateTimeFormat options); with "long" it yields the capitalised
\* English name.
toLocaleDateString(day, style) ==
  IF style \notin {"narrow", "short", "long"}
  THEN [threw |-> TRUE, value |-> "RangeError"]
  ELSE [threw |-> FALSE, value |-> LongWeekdays[(day % 7) + 1]]

(***************************************************************************)
(* validateBookingRequest: the result is {valid: true}, {valid: false,     *)
(* error} (error named by the check that produced it) or an exception.     *)
(***************************************************************************)
Valid == [kind |-> "valid", error |-> "none"]
Invalid(check) == [kind |-> "invalid", error |-> check]
Threw == [kind |-> "threw", error |-> "none"]

\* The business-hours part (lines 922-943), entered once both window checks
\* have passed.
CheckBusinessHours(request, cfg) ==
  LET dayOfWeek == toLocaleDateString(request.date, WeekdayOption)
  IN  IF dayOfWeek.threw THEN Threw
      ELSE IF dayOfWeek.value \notin DOMAIN cfg.businessHours
           THEN Threw                    \* undefined.open: TypeError
      ELSE
        LET businessHours == cfg.businessHours[dayOfWeek.value]
        IN  IF businessHours.open = NULL \/ businessHours.close = NULL
            THEN Invalid("closed")
            ELSE
              LET requestMinutes == ToMinutes(request.time)
                  openMinutes == ToMinutes(businessHours.open)
                  closeMinutes == ToMinutes(businessHours.close)
                  endMinutes == requestMinutes + request.duration
              IN  IF requestMinutes < openMinutes \/ endMinutes > closeMinutes
                  THEN Invalid("hours")
                  ELSE Valid

validateBookingRequest_hoursFirst(request, cfg, t) ==
  LET requestDate == ParseLocal(request.date, request.time)
      minBookingTime == t + cfg.advanceBookingDays * MinutesPerDay
      maxBookingTime == t + cfg.maxBookingDays * MinutesPerDay
      hours == CheckBusinessHours(request, cfg)
  IN  IF hours # Valid THEN hours
      ELSE IF requestDate < minBookingTime THEN Invalid("advance")
      ELSE IF requestDate > maxBookingTime THEN Invalid("max")
      ELSE Valid

validateBookingRequest(request, cfg, t) ==
  LET requestDate == ParseLocal(request.date, request.time)
      minBookingTime == t + cfg.advanceBookingDays * MinutesPerDay
      maxBookingTime == t + cfg.maxBookingDays * MinutesPerDay
  IN  IF requestDate < minBookingTime THEN Invalid("advance")
      ELSE IF requestDate > maxBookingTime THEN Invalid("max")
      ELSE CheckBusinessHours(request, cfg)

(***************************************************************************)
(* State.                                                                  *)
(***************************************************************************)
VARIABLES
  now,                \* the clock read by new Date() and Date.now()
  ticks,              \* how often the clock has advanced
  config,             \* this.config
  googleCalendarId,   \* TRUE once configureGoogleCalendar was called
  outlookCalendarId,  \* TRUE once configureOutlookCalendar was called
  stored,             \* the events the calendar providers hold (by: the
                      \* createBooking call an event comes from, 0 for none)
  invoked,            \* the create-event operations asked of a provider
  bk,                 \* the createBooking calls
  sl,                 \* the getAvailableSlots call
  sessions,           \* the chat route's session map
  arrays,             \* the message arrays of the conversation contexts
  rq,                 \* the chat route's POST requests
  turns,              \* how many POST requests have come in
  OPENAI_API_KEY,     \* whether the /api/ai route has an OpenAI key
  aiSessions,         \* the /api/ai route's session map
  aiObjects,          \* the session objects of the /api/ai route
  aiRq,               \* the /api/ai route's POST requests
  aiTurns             \* how many of them have come in

calendarVars == <<config, googleCalendarId, outlookCalendarId, stored,
                  invoked, bk, sl>>

chatVars == <<sessions, arrays, rq, turns>>

aiVars == <<OPENAI_API_KEY, aiSessions, aiObjects, aiRq, aiTurns>>

vars == <<now, ticks, config, googleCalendarId, outlookCalendarId, stored,
          invoked, bk, sl, sessions, arrays, rq, turns, OPENAI_API_KEY,
          aiSessions, aiObjects, aiRq, aiTurns>>

(***************************************************************************)
(* Inputs.                                                                 *)
(***************************************************************************)
Req(d, h, m, dur) == [date |-> d, time |-> <<h, m>>, duration |-> dur]

\* Booking requests.  With the clock at day 0, 10:00 and the default policy:
Requests ==
  { Req(0, 13, 0, 60),    \* today, in three hours, inside business hours
    Req(1, 10, 0, 60),    \* exactly the minimum lead time, inside hours
    Req(6, 10, 0, 60),    \* Sunday, a closed day, inside the window
    Req(0, 7, 0, 60),     \* too soon and before opening time
    Req(62, 10, 0, 60) }  \* beyond the horizon and on a Sunday

\* An event a provider's calendar holds before any booking is made.
ExistingEvent ==
  [id |-> [src |-> "google", t |-> 0, n |-> 0],
   start |-> ParseLocal(2, <<10, 0>>), end |-> ParseLocal(2, <<11, 0>>),
   status |-> "confirmed", source |-> "google", by |-> 0]

\* Partial<CalendarConfig> values passed to updateConfig.
LateFriday ==
  [businessHours |->
     [DefaultBusinessHours EXCEPT !.friday = [open |-> <<9, 0>>,
                                              close |-> <<18, 0>>]]]

ConfigUpdates ==
  { [businessHours |-> [d \in {"monday", "friday"} |->
                          [open |-> <<9, 0>>, close |-> <<18, 0>>]]] }

\* What awaiting createGoogleEvent / createOutlookEvent can give its caller,
\* by the declared result Promise<string | null>: an id, null, a rejection.
ProviderOutcomes == {"id", "null", "reject"}

(***************************************************************************)
(* createBooking.                                                          *)
(***************************************************************************)
NoId == [src |-> "none", t |-> 0, n |-> 0]
NoRequest == Req(0, 0, 0, 0)
NoResult == [status |-> "none", eventId |-> NoId, error |-> "none"]
Success(id) == [status |-> "success", eventId |-> id, error |-> "none"]
Failure(e) == [status |-> "failure", eventId |-> NoId, error |-> e]

\* A call: where it stands, its argument, the clock and configuration its
\* validation read, what the validation gave, the providers' answers so far
\* and the result returned.
IdleCall ==
  [pc |-> "idle", request |-> NoRequest, at |-> 0, cfg |-> DEFAULT_CONFIG,
   validation |-> "none", askedAt |-> 0, answers |-> <<>>,
   result |-> NoResult]

\* startDateTime and endDateTime of the event built from a request.
StartOf(request) == ParseLocal(request.date, request.time)
EndOf(request) == StartOf(request) + request.duration

\* return { success, ... }: the call is over.
Return(c, call, result) ==
  bk' = [bk EXCEPT ![c] = [call EXCEPT !.pc = "done", !.result = result]]

\* The provider the call turns to after `after` ("start", "google",
\* "outlook") did not give an id: lines 808, 816, 823.
NextProvider(after) ==
  IF after = "start" /\ googleCalendarId THEN "google"
  ELSE IF after \in {"start", "google"} /\ outlookCalendarId THEN "outlook"
  ELSE "mock"

\* Lines 807-827 from the point `after` on, up to the next await or return.
Attempt(c, call, after) ==
  LET p == NextProvider(after)
  IN  IF p = "mock"
      THEN /\ Return(c, call, Success([src |-> "mock", t |-> now, n |-> c]))
           /\ UNCHANGED invoked
      ELSE /\ bk' = [bk EXCEPT ![c] =
                       [call EXCEPT !.pc = IF p = "google" THEN "awaitGoogle"
                                           ELSE "awaitOutlook",
                                    !.askedAt = now]]
           /\ invoked' = invoked \cup {[provider |-> p, call |-> c]}

Call_ignoringValidation(c, request) ==
  LET validation == validateBookingRequest(request, config, now)
      call == [bk[c] EXCEPT !.request = request, !.at = now, !.cfg = config,
                            !.validation = IF validation.kind = "invalid"
                                           THEN validation.error
                                           ELSE validation.kind]
  IN  /\ UNCHANGED stored
      /\ IF validation.kind = "threw"
         THEN Return(c, call, Failure("technical")) /\ UNCHANGED invoked
         ELSE Attempt(c, call, "start")

\* Lines 787-792 and on: the call, up to its first await or its return.
Call(c, request) ==
  LET validation == validateBookingRequest(request, config, now)
      call == [bk[c] EXCEPT !.request = request, !.at = now, !.cfg = config,
                            !.validation = IF validation.kind = "invalid"
                                           THEN validation.error
                                           ELSE validation.kind]
  IN  /\ UNCHANGED stored
      /\ IF validation.kind = "threw"
         THEN Return(c, call, Failure("technical")) /\ UNCHANGED invoked
         ELSE IF validation.kind = "invalid"
         THEN Return(c, call, Failure(validation.error)) /\ UNCHANGED invoked
         ELSE Attempt(c, call, "start")

\* The awaited provider answers: lines 809-813 and 817-821, and the catch.
\* An id is the id of the event the provider now holds.
Answer(c, p, outcome) ==
  LET call == [bk[c] EXCEPT !.answers = Append(@, outcome)]
      id == [src |-> p, t |-> call.askedAt, n |-> 0]
  IN  CASE outcome = "id" ->
             /\ stored' = stored \cup
                   {[id |-> id, start |-> StartOf(call.request),
                     end |-> EndOf(call.request), status |-> "confirmed",
                     source |-> p, by |-> c]}
             /\ Return(c, call, Success(id))
             /\ UNCHANGED invoked
        [] outcome = "null" ->
             /\ Attempt(c, call, p)
             /\ UNCHANGED stored
        [] OTHER ->
             /\ Return(c, call, Failure("technical"))
             /\ UNCHANGED <<stored, invoked>>

createBooking(c) ==
  /\ CASE bk[c].pc = "idle" -> \E request \in Requests : Call(c, request)
       [] bk[c].pc = "validated" ->
            Attempt(c, bk[c], "start") /\ UNCHANGED stored
       [] bk[c].pc = "awaitGoogle" ->
            \E outcome \in ProviderOutcomes : Answer(c, "google", outcome)
       [] bk[c].pc = "awaitOutlook" ->
            \E outcome \in ProviderOutcomes : Answer(c, "outlook", outcome)
       [] OTHER -> FALSE
  /\ UNCHANGED <<now, ticks, config, googleCalendarId, outlookCalendarId, sl>>
  /\ UNCHANGED chatVars
  /\ UNCHANGED aiVars

(***************************************************************************)
(* Configuration and the clock.                                            *)
(***************************************************************************)
configureGoogleCalendar ==
  /\ googleCalendarId' = TRUE
  /\ UNCHANGED <<now, ticks, config, outlookCalendarId, stored, invoked, bk, sl>>
  /\ UNCHANGED chatVars
  /\ UNCHANGED aiVars

configureOutlookCalendar ==
  /\ outlookCalendarId' = TRUE
  /\ UNCHANGED <<now, ticks, config, googleCalendarId, stored, invoked, bk, sl>>
  /\ UNCHANGED chatVars
  /\ UNCHANGED aiVars

updateConfig(newConfig) ==
  /\ config' = Merge(config, newConfig)
  /\ UNCHANGED <<now, ticks, googleCalendarId, outlookCalendarId, stored,
                 invoked, bk, sl>>
  /\ UNCHANGED chatVars
  /\ UNCHANGED aiVars

\* Time passes: three hours.
Tick ==
  /\ ticks < MaxTicks
  /\ ticks' = ticks + 1
  /\ now' = now + 180
  /\ UNCHANGED <<config, googleCalendarId, outlookCalendarId, stored, invoked,
                 bk, sl>>
  /\ UNCHANGED chatVars
  /\ UNCHANGED aiVars

(***************************************************************************)
(* getEvents, getMockEvents, findConflicts.                                *)
(***************************************************************************)
\* The hours and durations getMockEvents draws from (hour is 9 + 0..7, of
\* which the model follows the first, a middle and the last).
MockHours == {9, 14, 16}
MockDurations == {30, 60, 90}

MockEvent(startDate, i, hour, duration) ==
  LET eventStart == (startDate \div MinutesPerDay) * MinutesPerDay + hour * 60
  IN  [id |-> [src |-> "mock", t |-> startDate, n |-> i],
       start |-> eventStart, end |-> eventStart + duration,
       status |-> "confirmed", source |-> "internal", by |-> 0]

\* The lists getMockEvents(startDate, endDate) can return for one day:
\* Math.random decides whether the day has events, how many and which.
getMockEvents(startDate) ==
  UNION { { [i \in 1..n |-> MockEvent(startDate, i - 1, f[i][1], f[i][2])] :
              f \in [1..n -> MockHours \X MockDurations] } :
          n \in 0..MaxMockEvents }

\* fetchGoogleEvents and fetchOutlookEvents return no event.
fetchGoogleEvents == <<>>
fetchOutlookEvents == <<>>

\* getEvents: the providers' events, or the mock's when none is configured.
getEvents(mock) ==
  IF ~googleCalendarId /\ ~outlookCalendarId
  THEN mock
  ELSE (IF googleCalendarId THEN fetchGoogleEvents ELSE <<>>)
       \o (IF outlookCalendarId THEN fetchOutlookEvents ELSE <<>>)

\* An overlap test that counts touching boundaries.
Overlaps_inclusive(slotStart, slotEnd, event) ==
  slotStart <= event.end /\ slotEnd >= event.start

\* The filter of findConflicts, line 901.
Overlaps(slotStart, slotEnd, event) ==
  slotStart < event.end /\ slotEnd > event.start

RECURSIVE findConflicts(_, _, _)
findConflicts(slotStart, slotEnd, existingEvents) ==
  IF existingEvents = <<>> THEN <<>>
  ELSE (IF Overlaps(slotStart, slotEnd, Head(existingEvents))
        THEN <<Head(existingEvents).id>> ELSE <<>>)
       \o findConflicts(slotStart, slotEnd, Tail(existingEvents))

(***************************************************************************)
(* getAvailableSlots.                                                      *)
(***************************************************************************)
SlotDates == {4, 6}                \* a Friday, a Sunday
SlotDurations == {60}
SlotIntervals == {30}              \* the default, which the routes rely on

IdleSlots ==
  [pc |-> "idle", date |-> 0, duration |-> 0, slotInterval |-> 0,
   hours |-> DefaultBusinessHours, dayStart |-> 0, dayEnd |-> 0,
   existingEvents |-> <<>>, currentTime |-> 0, allSlots |-> <<>>]

\* The condition of the while loop, line 768.
LoopGuard_startOnly(currentTime, duration, dayEnd) == currentTime <= dayEnd

LoopGuard(currentTime, duration, dayEnd) == currentTime + duration <= dayEnd

\* Lines 752-766: the day's limits, the existing events, the loop's start.
EnterLoop(call, businessHours) ==
  LET dayStart == ParseLocal(call.date, businessHours.open)
      dayEnd == ParseLocal(call.date, businessHours.close)
  IN  \E mock \in getMockEvents(dayStart) :
        sl' = [call EXCEPT !.pc = "loop", !.dayStart = dayStart,
                           !.dayEnd = dayEnd,
                           !.existingEvents = getEvents(mock),
                           !.currentTime = dayStart, !.allSlots = <<>>]

\* Lines 744-750 and on: the call, up to the loop.
CallSlots(date, duration, slotInterval) ==
  LET call == [sl EXCEPT !.date = date, !.duration = duration,
                         !.slotInterval = slotInterval,
                         !.hours = config.businessHours]
      dayOfWeek == toLocaleDateString(date, WeekdayOption)
  IN  IF dayOfWeek.threw \/ dayOfWeek.value \notin DOMAIN config.businessHours
      THEN sl' = [call EXCEPT !.pc = "threw"]
      ELSE LET businessHours == config.businessHours[dayOfWeek.value]
           IN  IF businessHours.open = NULL \/ businessHours.close = NULL
               THEN sl' = [call EXCEPT !.pc = "returned"]
               ELSE EnterLoop(call, businessHours)

\* Lines 768-782: one iteration of the loop, or its end.
Iterate ==
  IF LoopGuard(sl.currentTime, sl.duration, sl.dayEnd)
  THEN LET slotEnd == sl.currentTime + sl.duration
           conflicts == findConflicts(sl.currentTime, slotEnd, sl.existingEvents)
       IN  /\ Len(sl.allSlots) < MaxIter
           /\ sl' = [sl EXCEPT
                       !.allSlots = Append(@, [start |-> sl.currentTime,
                                               end |-> slotEnd,
                                               available |-> conflicts = <<>>,
                                               conflictsWith |-> conflicts]),
                       !.currentTime = @ + sl.slotInterval]
  ELSE sl' = [sl EXCEPT !.pc = "returned"]

getAvailableSlots ==
  /\ CASE sl.pc = "idle" ->
            \E date \in SlotDates, duration \in SlotDurations,
               slotInterval \in SlotIntervals :
              CallSlots(date, duration, slotInterval)
       [] sl.pc = "open" ->
            EnterLoop(sl, config.businessHours[CalendarWeekday(sl.date)])
       [] sl.pc = "loop" -> Iterate
       [] OTHER -> FALSE
  /\ UNCHANGED <<now, ticks, config, googleCalendarId, outlookCalendarId,
                 stored, invoked, bk>>
  /\ UNCHANGED chatVars
  /\ UNCHANGED aiVars

(***************************************************************************)
(* The conversation engine: AIOrchestrator.  A text is the sequence of its *)
(* words and its length in characters.  The words are taken from a small   *)
(* vocabulary in which a keyword occurs in a text exactly when it is one   *)
(* of the text's words, so String.includes is membership of the words.     *)
(***************************************************************************)
Text(words, length) == [words |-> words, length |-> length]

Texts ==
  [ booking  |-> Text(<<"Je", "voudrais", "un", "RDV">>, 18),
    date     |-> Text(<<"demain">>, 6),
    time     |-> Text(<<"14h">>, 3),
    bookDate |-> Text(<<"RDV", "demain">>, 10),
    bookTime |-> Text(<<"RDV", "à", "9h">>, 8),
    example  |-> Text(<<"Je", "voudrais", "un", "RDV", "demain", "à", "14h">>,
                      31),
    hello    |-> Text(<<"Bonjour">>, 7),
    empty    |-> Text(<<>>, 0),
    tooLong  |-> Text(<<"RDV", "demain", "14h">>, 2001) ]

\* String.prototype.toLowerCase, on the vocabulary.
toLowerCase(words) ==
  [i \in DOMAIN words |->
     CASE words[i] = "RDV" -> "rdv"
       [] words[i] = "Je" -> "je"
       [] words[i] = "Bonjour" -> "bonjour"
       [] OTHER -> words[i]]

includes(words, keyword) == \E i \in DOMAIN words : words[i] = keyword

\* The date words of extractEntitiesFromMessage, in the order of lines 594-614.
DateWords ==
  <<"demain", "aujourd'hui", "lundi", "mardi", "mercredi", "jeudi", "vendredi">>

\* What /(\d{1,2})[h:]?(\d{0,2})/g finds in a word: `${hour}:${minute || '00'}`.
TimeMatches(word) ==
  CASE word = "14h" -> <<"14:00">>
    [] word = "9h" -> <<"9:00">>
    [] word = "14h30" -> <<"14:30">>
    [] OTHER -> <<>>

RECURSIVE TimeEntities(_)
TimeEntities(words) ==
  IF words = <<>> THEN <<>>
  ELSE [i \in DOMAIN TimeMatches(Head(words)) |->
          [type |-> "time", value |-> TimeMatches(Head(words))[i]]]
       \o TimeEntities(Tail(words))

\* Lines 589-626.
extractEntitiesFromMessage(words) ==
  LET lowerMessage == toLowerCase(words)
      found == SelectSeq(DateWords, LAMBDA w : includes(lowerMessage, w))
  IN  [i \in DOMAIN found |-> [type |-> "date", value |-> found[i]]]
      \o TimeEntities(words)

Intent(type, entities) == [type |-> type, entities |-> entities]

\* Lines 532-578: the first group of keywords the text holds decides.
detectIntent(words) ==
  LET lowerMessage == toLowerCase(words)
      has(keywords) == \E k \in keywords : includes(lowerMessage, k)
  IN  IF has({"rdv", "rendez-vous", "réserver", "prendre"})
      THEN Intent("prise_rdv", extractEntitiesFromMessage(words))
      ELSE IF has({"modifier", "changer", "déplacer"})
      THEN Intent("modifier_rdv", extractEntitiesFromMessage(words))
      ELSE IF has({"annuler", "supprimer"})
      THEN Intent("annuler_rdv", <<>>)
      ELSE IF has({"horaire", "ouvert", "ferme"})
      THEN Intent("heures_ouverture", <<>>)
      ELSE IF has({"bonjour", "salut", "bonsoir"})
      THEN Intent("salutation", <<>>)
      ELSE Intent("autre", <<>>)

\* Slots: a field that is not set holds NULL.
SlotFields == {"date", "time", "clientEmail"}
NoSlots == [f \in SlotFields |-> NULL]

\* What the e-mail pattern of line 646 finds in a word.
EmailMatches(word) == IF word = "a@b.fr" THEN <<"a@b.fr">> ELSE <<>>

RECURSIVE EmailsIn(_)
EmailsIn(words) ==
  IF words = <<>> THEN <<>>
  ELSE EmailMatches(Head(words)) \o EmailsIn(Tail(words))

RECURSIVE SlotsOfEntities(_, _)
SlotsOfEntities(entities, slots) ==
  IF entities = <<>> THEN slots
  ELSE LET entity == Head(entities)
       IN  SlotsOfEntities(Tail(entities),
                           IF entity.type \in {"date", "time"}
                           THEN [slots EXCEPT ![entity.type] = entity.value]
                           ELSE slots)

\* Lines 628-660: the slots of this turn, from the entities of the intent.
\* (The vocabulary holds no telephone number.)
extractSlots(intent, words) ==
  LET slots == SlotsOfEntities(intent.entities, NoSlots)
      emailMatch == EmailsIn(words)
  IN  IF emailMatch # <<>>
      THEN [slots EXCEPT !.clientEmail = emailMatch[1]]
      ELSE slots

\* { ...this.context.extractedSlots, ...newSlots } of line 489, written
\* wrongly: the turn's slots replace the old ones.
Spread_replacing(extractedSlots, newSlots) == newSlots

\* The same, written so that another value for a filled slot empties it.
Spread_invalidating(extractedSlots, newSlots) ==
  [f \in SlotFields |->
     IF newSlots[f] = NULL THEN extractedSlots[f]
     ELSE IF extractedSlots[f] \notin {NULL, newSlots[f]} THEN NULL
     ELSE newSlots[f]]

\* { ...this.context.extractedSlots, ...newSlots }, line 489.
Spread(extractedSlots, newSlots) ==
  [f \in SlotFields |->
     IF newSlots[f] # NULL THEN newSlots[f] ELSE extractedSlots[f]]

\* Lines 707-710 and 789-791.
getMissingRequiredSlots(slots) ==
  SelectSeq(<<"date", "time">>, LAMBDA f : slots[f] = NULL)

hasAllRequiredSlots(slots) == slots.date # NULL /\ slots.time # NULL

Reply(kind, date) == [kind |-> kind, date |-> date]
NoReply == Reply("none", NULL)

\* Lines 696-748: a question for the first missing slot, or the proposals.
handleBookingIntent(slots) ==
  LET missingSlots == getMissingRequiredSlots(slots)
  IN  IF missingSlots # <<>>
      THEN IF includes(missingSlots, "date")
           THEN Reply("ask_date", NULL)
           ELSE Reply("ask_time", NULL)
      ELSE Reply("proposals", slots.date)

\* Lines 662-694.
generateResponse(intent, slots) ==
  CASE intent.type = "salutation" -> Reply("welcome", NULL)
    [] intent.type = "prise_rdv" -> handleBookingIntent(slots)
    [] intent.type = "heures_ouverture" -> Reply("hours", NULL)
    [] intent.type = "info_service" -> Reply("services", NULL)
    [] OTHER -> Reply("unclear", NULL)

\* Lines 750-787, and the same with the booking held back until the user
\* confirms.
determineActions_onConfirmation(intent, slots) ==
  IF intent.type = "confirmation" /\ hasAllRequiredSlots(slots)
  THEN <<[type |-> "create_booking", date |-> slots.date, time |-> slots.time]>>
  ELSE <<>>

determineActions(intent, slots) ==
  IF intent.type = "prise_rdv" /\ hasAllRequiredSlots(slots)
  THEN <<[type |-> "create_booking", date |-> slots.date, time |-> slots.time]>>
       \o IF slots.clientEmail # NULL
          THEN <<[type |-> "send_confirmation_email", date |-> slots.date,
                  time |-> slots.time]>>
          ELSE <<>>
  ELSE <<>>

\* Lines 793-808, and the same with the completeness read from what the
\* turn itself has brought.
updateConversationStage_byTurn(intent, slots) ==
  IF intent.type = "salutation" THEN "greeting"
  ELSE IF intent.type = "prise_rdv"
  THEN IF hasAllRequiredSlots(SlotsOfEntities(intent.entities, NoSlots))
       THEN "booking_confirmation"
       ELSE "slot_gathering"
  ELSE "intent_detection"

updateConversationStage(intent, slots) ==
  IF intent.type = "salutation" THEN "greeting"
  ELSE IF intent.type = "prise_rdv"
  THEN IF hasAllRequiredSlots(slots)
       THEN "booking_confirmation"
       ELSE "slot_gathering"
  ELSE "intent_detection"

\* A conversation context; messages names its array of messages.
Context(messages, intent, slots, stage) ==
  [messages |-> messages, currentIntent |-> intent, extractedSlots |-> slots,
   conversationStage |-> stage]

NoArray == -1
NoContext == Context(NoArray, NULL, NoSlots, "greeting")

\* Lines 484-498 of processMessage: what a turn makes of the context, with
\* the reply and the actions.
Turn(context, words) ==
  LET intent == detectIntent(words)
      newSlots == extractSlots(intent, words)
      slots == Spread(context.extractedSlots, newSlots)
  IN  [response |-> generateResponse(intent, slots),
       actions |-> determineActions(intent, slots),
       context |-> Context(context.messages, intent.type, slots,
                           updateConversationStage(intent, slots))]

(***************************************************************************)
(* The chat route: the session map, POST and the hourly sweep.  Times are  *)
(* in minutes.                                                             *)
(***************************************************************************)
MaxTurns == 2        \* POST requests that come in
MaxElapses == 1      \* times the clock advances between the requests of the chat

SESSION_TTL == 24 * 60
SESSION_MAX_INACTIVE == 4 * 60
MaxLength == 2000
MinLength == 1

Requesters == 1..MaxTurns
ArrayIds == 0..MaxTurns

Sid(by, n) == [by |-> by, n |-> n]
NoSid == Sid("none", 0)
ClientSessionIds == {Sid("client", 1)}
SessionIds == ClientSessionIds \cup {Sid("server", n) : n \in 1..MaxTurns}

\* securityService.generateSessionId(): an id no other request is given.
generateSessionId(n) == Sid("server", n)

Session(context, lastActivity, createdAt) ==
  [present |-> TRUE, context |-> context, lastActivity |-> lastActivity,
   createdAt |-> createdAt]

NoSession ==
  [present |-> FALSE, context |-> NoContext, lastActivity |-> 0, createdAt |-> 0]

\* Lines 185 and 644, and the same test with the age left out.
isExpired_never(t, session) == FALSE

isExpired(t, session) == (t - session.createdAt) > SESSION_TTL

\* Lines 186 and 645, and the same test with the inactivity left out.
isInactive_never(t, session) == FALSE

isInactive(t, session) == (t - session.lastActivity) > SESSION_MAX_INACTIVE

\* securityService.validateAndSanitize(body, {message: {required, maxLength:
\* 2000, minLength: 1}, ...}), lines 142-153, and the same without the
\* bounds.
validateAndSanitize_unbounded(text) == TRUE

validateAndSanitize(text) ==
  /\ text.length # 0                    \* required: value === ''
  /\ ~(text.length > MaxLength)
  /\ ~(text.length < MinLength)

UserMessage(text) == [role |-> "user", content |-> text]
AssistantMessage(response) == [role |-> "assistant", content |-> response.kind]

IdleRequest ==
  [pc |-> "idle", n |-> 0, sessionId |-> NoSid, text |-> "empty", now |-> 0,
   found |-> "none", existingSession |-> NoSession, context |-> NoContext,
   response |-> NoReply, actions |-> <<>>, status |-> 0, executed |-> <<>>]

\* Lines 184-200: what is left of the entry of the session map.
Existing_kept(found, entry) == entry

Existing(found, entry) == IF found = "live" THEN entry ELSE NoSession

\* A response that ends the request before the session map is read.
Refuse(r, n, text, status) ==
  /\ rq' = [rq EXCEPT ![r] = [IdleRequest EXCEPT !.pc = "done", !.n = n,
                                                 !.text = text,
                                                 !.status = status]]
  /\ UNCHANGED <<sessions, arrays>>

\* Lines 176-206 and 477-481: the session of the request is looked up, and
\* dropped when it is too old or idle for too long; the orchestrator is
\* built on what is left and takes the user's message.
Begin(r, n, text, sessionId) ==
  LET entry == sessions[sessionId]
      found == IF ~entry.present THEN "absent"
               ELSE IF isExpired(now, entry) THEN "expired"
               ELSE IF isInactive(now, entry) THEN "inactive"
               ELSE "live"
      existingSession == Existing(found, entry)
      \* new AIOrchestrator(sessionId, existingSession?.context || ...):
      \* the client's context does not outlive validateAndSanitize
      messages == IF existingSession.present
                  THEN existingSession.context.messages
                  ELSE n
      context == IF existingSession.present
                 THEN Context(messages, NULL,
                              existingSession.context.extractedSlots,
                              existingSession.context.conversationStage)
                 ELSE Context(messages, NULL, NoSlots, "greeting")
  IN  /\ sessions' = IF found \in {"expired", "inactive"}
                     THEN [sessions EXCEPT ![sessionId] = NoSession]
                     ELSE sessions
      /\ arrays' = [arrays EXCEPT ![messages] =
                      Append(IF existingSession.present THEN @ ELSE <<>>,
                             UserMessage(text))]
      /\ rq' = [rq EXCEPT ![r] =
                  [IdleRequest EXCEPT !.pc = "processing", !.n = n,
                                      !.sessionId = sessionId, !.text = text,
                                      !.now = now, !.found = found,
                                      !.existingSession = existingSession,
                                      !.context = context]]

\* Lines 67-206: a request comes in, the n-th.
Receive(r, admitted, text, sessionId) ==
  LET n == turns + 1
  IN  /\ r = n
      /\ turns' = n
      /\ IF ~admitted
         THEN Refuse(r, n, "unread", 429)              \* lines 88-136
         ELSE IF ~validateAndSanitize(Texts[text])
         THEN Refuse(r, n, text, 400)                  \* lines 155-171
         ELSE Begin(r, n, text,
                    IF sessionId # NoSid THEN sessionId
                    ELSE generateSessionId(n))

\* Lines 484-505: the turn, and the reply pushed on the messages.
Process(r) ==
  LET turn == Turn(rq[r].context, Texts[rq[r].text].words)
  IN  /\ arrays' = [arrays EXCEPT ![rq[r].context.messages] =
                      Append(@, AssistantMessage(turn.response))]
      /\ rq' = [rq EXCEPT ![r].pc = "processed",
                          ![r].context = turn.context,
                          ![r].response = turn.response,
                          ![r].actions = turn.actions]
      /\ UNCHANGED <<sessions, turns>>

\* executeActions, lines 330-415.  handleCreateBooking hands the slots to
\* calendarService.createBooking, which returns no success (its validation
\* raises or refuses); the confirmation e-mail is sent or not.
executeActions(actions, mail) ==
  [i \in DOMAIN actions |->
     [type |-> actions[i].type,
      status |-> IF actions[i].type = "create_booking" THEN "failed" ELSE mail]]

\* Lines 234-291: the context is stored, the actions are executed, the
\* response is sent.
Store(r) ==
  LET existingSession == rq[r].existingSession
      createdAt == IF existingSession.present /\ existingSession.createdAt # 0
                   THEN existingSession.createdAt
                   ELSE rq[r].now
  IN  /\ sessions' = [sessions EXCEPT ![rq[r].sessionId] =
                        Session(rq[r].context, rq[r].now, createdAt)]
      /\ \E mail \in {"success", "failed"} :
           /\ mail = "failed" =>
                \E i \in DOMAIN rq[r].actions :
                  rq[r].actions[i].type = "send_confirmation_email"
           /\ rq' = [rq EXCEPT ![r].pc = "done", ![r].status = 200,
                               ![r].executed =
                                 executeActions(rq[r].actions, mail)]
      /\ UNCHANGED <<arrays, turns>>

ChatTexts ==
  {"date", "time", "bookTime", "example", "hello", "empty", "tooLong"}

\* The bodies of the requests: a message and a session id, or none.
ChatBodies ==
  (ChatTexts \X ClientSessionIds) \cup {<<"example", NoSid>>}

POST(r) ==
  /\ CASE rq[r].pc = "idle" ->
            \E admitted \in BOOLEAN, body \in ChatBodies :
              Receive(r, admitted, body[1], body[2])
       [] rq[r].pc = "processing" -> Process(r)
       [] rq[r].pc = "processed" -> Store(r)
       [] OTHER -> FALSE
  /\ UNCHANGED <<now, ticks>>
  /\ UNCHANGED calendarVars
  /\ UNCHANGED aiVars

\* The setInterval callback, lines 639-656.
sweep ==
  /\ sessions' = [id \in SessionIds |->
                    IF sessions[id].present
                       /\ (isExpired(now, sessions[id])
                           \/ isInactive(now, sessions[id]))
                    THEN NoSession
                    ELSE sessions[id]]
  /\ UNCHANGED <<now, ticks, arrays, rq, turns>>
  /\ UNCHANGED calendarVars
  /\ UNCHANGED aiVars

\* Two hours pass.  A request awaits no timer and no answer from outside,
\* so hours pass between requests, not while one is in flight.
ElapseSteps == {120}

Elapse(minutes) ==
  /\ ticks < MaxElapses
  /\ \A r \in Requesters : rq[r].pc \in {"idle", "done"}
  /\ ticks' = ticks + 1
  /\ now' = now + minutes
  /\ UNCHANGED chatVars
  /\ UNCHANGED aiVars
  /\ UNCHANGED calendarVars

(***************************************************************************)
(* The /api/ai route, src/app/api/ai/route.ts: its own session map, whose  *)
(* entries are objects that a request keeps a reference to.  Times are in  *)
(* minutes.                                                                *)
(***************************************************************************)
SYSTEM_PROMPT == [role |-> "system", content |-> "prompt"]
maxAge == 24 * 60

\* References to session objects: 0 for the object of an earlier request,
\* n for the one the n-th request makes.
NoRef == -1
Refs == 0..MaxTurns

SessionObject(messages, createdAt, lastActivity) ==
  [messages |-> messages, createdAt |-> createdAt,
   lastActivity |-> lastActivity]

NoObject == SessionObject(<<>>, 0, 0)

\* Lines 102-114: the messages the route refuses (the vocabulary holds no
\* text made of blanks only).
RouteRejects(text) == text.length = 0 \/ text.length > 2000

\* generateIntelligentResponse, lines 295-401: the reply by the keywords of
\* the message; the session is not read.
generateIntelligentResponse(words) ==
  LET lowerMessage == toLowerCase(words)
      has(keywords) == \E k \in keywords : includes(lowerMessage, k)
  IN  IF has({"rdv", "rendez-vous", "réserver"})
      THEN IF has({"demain"}) THEN "slots_tomorrow"
           ELSE IF has({"14h", "14:"}) THEN "confirmed_1430"
           ELSE "ask_date"
      ELSE IF has({"horaire", "heure"}) THEN "hours"
      ELSE IF has({"service", "consultation"}) THEN "services"
      ELSE IF has({"annul", "modif", "changer"}) THEN "identify"
      ELSE IF has({"prix", "tarif", "coût"}) THEN "prices"
      ELSE "welcome"

\* What callOpenAI gives: a reply, a reply that holds 'confirmé', an error.
OpenAIOutcomes == {"reply", "confirmed", "error"}

\* messages.slice(-k).
slice(messages, k) ==
  IF Len(messages) <= k THEN messages
  ELSE SubSeq(messages, Len(messages) - k + 1, Len(messages))

\* Lines 212-217: the system prompt and the last 20 messages.
LimitHistory(messages) ==
  IF Len(messages) > 21
  THEN <<messages[1]>> \o slice(messages, 20)
  ELSE messages

\* cleanupOldSessions, lines 546-555, on a map and its objects.
cleanupOldSessions(map, objects) ==
  [id \in DOMAIN map |->
     IF map[id] # NoRef /\ now - objects[map[id]].lastActivity > maxAge
     THEN NoRef
     ELSE map[id]]

IdleAiRequest ==
  [pc |-> "idle", n |-> 0, sessionId |-> NoSid, text |-> "empty",
   found |-> "none", session |-> NoRef, history |-> <<>>, sent |-> <<>>,
   response |-> "none", actions |-> <<>>, status |-> 0]

\* Lines 209-251: the reply joins the history of the object the request
\* holds, and the response is sent.
Respond(r, request, objects, response, actions) ==
  /\ aiObjects' = [objects EXCEPT ![request.session].messages =
                     LimitHistory(Append(@, [role |-> "assistant",
                                             content |-> response]))]
  /\ aiRq' = [aiRq EXCEPT ![r] = [request EXCEPT !.pc = "done",
                                                 !.response = response,
                                                 !.actions = actions,
                                                 !.status = 200]]

\* Lines 76-143: a request comes in, the n-th.  The session is looked up or
\* made (lines 119-128), then the old sessions are cleaned up (line 131),
\* then the message joins the session the request holds (lines 134-135).
Accept(r, admitted, text, sessionId) ==
  LET n == aiTurns + 1
      id == IF sessionId # NoSid THEN sessionId ELSE generateSessionId(n)
      had == aiSessions[id]
      found == IF had = NoRef THEN "absent"
               ELSE IF now - aiObjects[had].lastActivity > maxAge THEN "stale"
               ELSE "live"
      session == IF had = NoRef THEN n ELSE had
      made == IF had = NoRef
              THEN [aiObjects EXCEPT ![n] =
                      SessionObject(<<SYSTEM_PROMPT>>, now, now)]
              ELSE aiObjects
      set == [aiSessions EXCEPT ![id] = session]
      pushed == [made EXCEPT ![session].messages = Append(@, UserMessage(text)),
                             ![session].lastActivity = now]
      request == [IdleAiRequest EXCEPT
                    !.n = n, !.sessionId = id, !.text = text, !.found = found,
                    !.session = session, !.history = made[session].messages]
  IN  /\ r = n
      /\ aiTurns' = n
      /\ IF ~admitted \/ RouteRejects(Texts[text])
         THEN /\ aiRq' = [aiRq EXCEPT ![r] =
                            [IdleAiRequest EXCEPT
                               !.pc = "done", !.n = n,
                               !.text = IF admitted THEN text ELSE "unread",
                               !.status = IF admitted THEN 400 ELSE 429]]
              /\ UNCHANGED <<aiSessions, aiObjects>>
         ELSE /\ aiSessions' = cleanupOldSessions(set, made)
              /\ IF OPENAI_API_KEY
                 THEN /\ aiObjects' = pushed
                      /\ aiRq' = [aiRq EXCEPT ![r] =
                                    [request EXCEPT
                                       !.pc = "awaitOpenAI",
                                       !.sent = slice(pushed[session].messages,
                                                      10)]]
                 ELSE Respond(r, request, pushed,
                              generateIntelligentResponse(Texts[text].words),
                              <<>>)

\* Lines 143-201: callOpenAI has answered, or failed.
Answer_ai(r, outcome) ==
  LET request == aiRq[r]
  IN  /\ IF outcome = "error"
         THEN Respond(r, request, aiObjects,
                      generateIntelligentResponse(Texts[request.text].words),
                      <<>>)
         ELSE Respond(r, request, aiObjects, outcome,
                      IF outcome = "confirmed"
                      THEN <<[type |-> "create_booking", status |-> "success"]>>
                      ELSE <<>>)
      /\ UNCHANGED <<aiSessions, aiTurns>>

AiTexts == {"example", "hello", "empty", "tooLong"}

AiBodies == AiTexts \X (ClientSessionIds \cup {NoSid})

POST_ai(r) ==
  /\ CASE aiRq[r].pc = "idle" ->
            \E admitted \in BOOLEAN, body \in AiBodies :
              Accept(r, admitted, body[1], body[2])
       [] aiRq[r].pc = "awaitOpenAI" ->
            \E outcome \in OpenAIOutcomes : Answer_ai(r, outcome)
       [] OTHER -> FALSE
  /\ UNCHANGED <<now, ticks, OPENAI_API_KEY>>
  /\ UNCHANGED calendarVars
  /\ UNCHANGED chatVars

\* Two hours pass between the requests of the route.
Elapse_ai(minutes) ==
  /\ ticks < MaxElapses
  /\ \A r \in Requesters : aiRq[r].pc \in {"idle", "done"}
  /\ ticks' = ticks + 1
  /\ now' = now + minutes
  /\ UNCHANGED aiVars
  /\ UNCHANGED chatVars
  /\ UNCHANGED calendarVars

\* The route when its module is loaded, with no key configured.
NoAi ==
  /\ OPENAI_API_KEY = FALSE
  /\ aiSessions = [id \in SessionIds |-> NoRef]
  /\ aiObjects = [o \in Refs |-> NoObject]
  /\ aiRq = [r \in Requesters |-> IdleAiRequest]
  /\ aiTurns = 0

\* No chat yet: the state of the route when its module is loaded.
NoChat ==
  /\ sessions = [id \in SessionIds |-> NoSession]
  /\ arrays = [a \in ArrayIds |-> <<>>]
  /\ rq = [r \in Requesters |-> IdleRequest]
  /\ turns = 0

(***************************************************************************)
(* The service: constructed with the default configuration, the clock at   *)
(* day 0, 10:00.  The providers' calendars are not the service's: one      *)
(* holds an event already.                                                 *)
(***************************************************************************)
Now0 == ParseLocal(0, <<10, 0>>)

Init ==
  /\ now = Now0
  /\ ticks = 0
  /\ config = Merge(DEFAULT_CONFIG, <<>>)    \* new CalendarService({})
  /\ googleCalendarId = FALSE
  /\ outlookCalendarId = FALSE
  /\ stored = {ExistingEvent}
  /\ invoked = {}
  /\ bk = [c \in Calls |-> IdleCall]
  /\ sl = IdleSlots
  /\ NoChat
  /\ NoAi

Next ==
  \/ \E c \in Calls : createBooking(c)
  \/ getAvailableSlots
  \/ configureGoogleCalendar
  \/ configureOutlookCalendar
  \/ \E newConfig \in ConfigUpdates : updateConfig(newConfig)
  \/ Tick

Spec == Init /\ [][Next]_vars

(***************************************************************************)
(* The booking policy as section 4.2 states it, on the calendar's weekday. *)
(***************************************************************************)
TooSoon(request, cfg, t) ==
  StartOf(request) < t + cfg.advanceBookingDays * MinutesPerDay

TooFar(request, cfg, t) ==
  StartOf(request) > t + cfg.maxBookingDays * MinutesPerDay

ClosedDay(date, businessHours) ==
  \/ CalendarWeekday(date) \notin DOMAIN businessHours
  \/ businessHours[CalendarWeekday(date)].open = NULL
  \/ businessHours[CalendarWeekday(date)].close = NULL

OutOfHours(request, cfg) ==
  \/ ClosedDay(request.date, cfg.businessHours)
  \/ LET h == cfg.businessHours[CalendarWeekday(request.date)]
     IN  \/ ToMinutes(request.time) < ToMinutes(h.open)
         \/ ToMinutes(request.time) + request.duration > ToMinutes(h.close)

PolicyHolds(request, cfg, t) ==
  /\ ~TooSoon(request, cfg, t)
  /\ ~TooFar(request, cfg, t)
  /\ ~OutOfHours(request, cfg)

(***************************************************************************)
(* createBooking past its validation (line 792): the calls hold requests   *)
(* that meet the booking policy, and lines 794-831 decide their results.   *)
(* Under Spec no call gets this far, because CheckBusinessHours raises for *)
(* every request; BookSpec is the rest of createBooking taken by itself.   *)
(***************************************************************************)
AcceptableRequests ==
  {r \in Requests \cup { Req(2, 10, 0, 60),      \* Wednesday 10:00-11:00
                         Req(2, 10, 30, 60) } :  \* Wednesday 10:30-11:30
     PolicyHolds(r, DEFAULT_CONFIG, Now0)}

BookInit ==
  /\ now = Now0
  /\ ticks = 0
  /\ config = DEFAULT_CONFIG
  /\ googleCalendarId = FALSE
  /\ outlookCalendarId = FALSE
  /\ stored \in {{}, {ExistingEvent}}
  /\ invoked = {}
  /\ bk \in [Calls -> {[IdleCall EXCEPT !.pc = "validated", !.request = r,
                                        !.at = Now0, !.validation = "valid"] :
                        r \in AcceptableRequests}]
  /\ sl = IdleSlots
  /\ NoChat
  /\ NoAi

BookNext ==
  \/ \E c \in Calls : createBooking(c)
  \/ configureGoogleCalendar
  \/ configureOutlookCalendar
  \/ Tick

BookSpec == BookInit /\ [][BookNext]_vars

(***************************************************************************)
(* Slot generation past the closed-day test (line 750): the call holds an  *)
(* open day, a duration and an interval, and lines 752-782 make the slots. *)
(* Under Spec no call gets this far, because line 745 raises; SlotSpec is  *)
(* the slot calculus taken by itself, over the intervals and durations the *)
(* signature takes.                                                        *)
(***************************************************************************)
LoopDates == {2, 4, 5}             \* a Wednesday, a Friday, a Saturday
LoopConfigs == {DEFAULT_CONFIG, Merge(DEFAULT_CONFIG, LateFriday)}
LoopDurations == {30, 60, 90, 300}
LoopIntervals == {-30, 0, 30, 60}

SlotInit ==
  /\ now = Now0
  /\ ticks = 0
  /\ config \in LoopConfigs
  /\ googleCalendarId \in BOOLEAN
  /\ outlookCalendarId = FALSE
  /\ stored = {}
  /\ invoked = {}
  /\ bk = [c \in Calls |-> IdleCall]
  /\ sl \in {[IdleSlots EXCEPT !.pc = "open", !.date = d, !.duration = dur,
                               !.slotInterval = i,
                               !.hours = config.businessHours] :
               d \in {x \in LoopDates : ~ClosedDay(x, DefaultBusinessHours)},
               dur \in LoopDurations, i \in LoopIntervals}
  /\ NoChat
  /\ NoAi

SlotNext == getAvailableSlots

SlotSpec == SlotInit /\ [][SlotNext]_vars

(***************************************************************************)
(* findConflicts by itself: the loop of lines 768-782 over lists of events *)
(* of every status the CalendarEvent type has.  The event sources of the   *)
(* service give confirmed events only (getMockEvents) or none (the         *)
(* fetchers); ConflictSpec passes findConflicts what a calendar holds.     *)
(***************************************************************************)
EventStatuses == {"confirmed", "tentative", "cancelled"}
ConflictDate == 2                  \* a Wednesday, open 09:00-18:00
ConflictHours == {10, 14}
ConflictIntervals == {30, 60}

CalendarEvent(i, hour, status) ==
  [id |-> [src |-> "google", t |-> 0, n |-> i],
   start |-> ParseLocal(ConflictDate, <<hour, 0>>),
   end |-> ParseLocal(ConflictDate, <<hour + 1, 0>>),
   status |-> status, source |-> "google", by |-> 0]

\* Lists of up to MaxEvents events.
EventLists ==
  UNION { { [i \in 1..n |-> CalendarEvent(i, f[i][1], f[i][2])] :
              f \in [1..n -> ConflictHours \X EventStatuses] } :
          n \in 0..MaxEvents }

ConflictInit ==
  /\ now = Now0
  /\ ticks = 0
  /\ config = DEFAULT_CONFIG
  /\ googleCalendarId = TRUE
  /\ outlookCalendarId = FALSE
  /\ stored = {}
  /\ invoked = {}
  /\ bk = [c \in Calls |-> IdleCall]
  /\ \E existingEvents \in EventLists, slotInterval \in ConflictIntervals :
       LET h == config.businessHours[CalendarWeekday(ConflictDate)]
       IN  sl = [IdleSlots EXCEPT
                   !.pc = "loop", !.date = ConflictDate, !.duration = 60,
                   !.slotInterval = slotInterval,
                   !.hours = config.businessHours,
                   !.dayStart = ParseLocal(ConflictDate, h.open),
                   !.dayEnd = ParseLocal(ConflictDate, h.close),
                   !.existingEvents = existingEvents,
                   !.currentTime = ParseLocal(ConflictDate, h.open)]
  /\ NoChat
  /\ NoAi

ConflictNext == getAvailableSlots

ConflictSpec == ConflictInit /\ [][ConflictNext]_vars

(***************************************************************************)
(* The configuration by itself: the service constructed with any partial   *)
(* configuration, then any sequence of updateConfig calls.                 *)
(***************************************************************************)
ConfigKeys == {"businessHours", "advanceBookingDays", "maxBookingDays"}
AdvanceValues == {-1, 0, 2, 7}
MaxValues == {0, 1, 30, 90}
HoursValues ==
  {LateFriday.businessHours} \cup {u.businessHours : u \in ConfigUpdates}

\* A Partial<CalendarConfig>: the fields `keys`, with these values.
Partial(keys, hours, advance, max) ==
  [f \in keys |-> CASE f = "businessHours" -> hours
                    [] f = "advanceBookingDays" -> advance
                    [] OTHER -> max]

PartialConfigs ==
  {Partial(keys, hours, advance, max) :
     keys \in SUBSET ConfigKeys, hours \in HoursValues,
     advance \in AdvanceValues, max \in MaxValues}

ConfigInit ==
  /\ now = Now0
  /\ ticks = 0
  /\ \E partial \in PartialConfigs : config = Merge(DEFAULT_CONFIG, partial)
  /\ googleCalendarId = FALSE
  /\ outlookCalendarId = FALSE
  /\ stored = {}
  /\ invoked = {}
  /\ bk = [c \in Calls |-> IdleCall]
  /\ sl = IdleSlots
  /\ NoChat
  /\ NoAi

ConfigNext ==
  \/ \E newConfig \in PartialConfigs : updateConfig(newConfig)
  \/ Tick

ConfigSpec == ConfigInit /\ [][ConfigNext]_vars

(***************************************************************************)
(* The chat route by itself.  It starts with no session, or with the       *)
(* session of a client who asked for an appointment two hours ago and has  *)
(* not answered since, or with the session of a client who asked for one   *)
(* tomorrow 23 hours ago and has kept talking until now.                   *)
(***************************************************************************)
ChatNow0 == ParseLocal(1, <<10, 0>>)

EarlierTurn(text) == Turn(Context(0, NULL, NoSlots, "greeting"), Texts[text].words)

EarlierSession(text, idle, age) ==
  Session(EarlierTurn(text).context, ChatNow0 - idle, ChatNow0 - age)

EarlierSessions == {<<"booking", 121, 121>>, <<"bookDate", 0, 23 * 60>>}

ChatInit ==
  /\ now = ChatNow0
  /\ ticks = 0
  /\ config = DEFAULT_CONFIG
  /\ googleCalendarId = FALSE
  /\ outlookCalendarId = FALSE
  /\ stored = {}
  /\ invoked = {}
  /\ bk = [c \in Calls |-> IdleCall]
  /\ sl = IdleSlots
  /\ rq = [r \in Requesters |-> IdleRequest]
  /\ turns = 0
  /\ NoAi
  /\ \/ /\ sessions = [id \in SessionIds |-> NoSession]
        /\ arrays = [a \in ArrayIds |-> <<>>]
     \/ \E earlier \in EarlierSessions :
          /\ sessions = [id \in SessionIds |->
                           IF id = Sid("client", 1)
                           THEN EarlierSession(earlier[1], earlier[2], earlier[3])
                           ELSE NoSession]
          /\ arrays = [a \in ArrayIds |->
                         IF a = 0
                         THEN <<UserMessage(earlier[1]),
                                AssistantMessage(EarlierTurn(earlier[1]).response)>>
                         ELSE <<>>]

ChatNext ==
  \/ \E r \in Requesters : POST(r)
  \/ sweep
  \/ \E minutes \in ElapseSteps : Elapse(minutes)

ChatSpec == ChatInit /\ [][ChatNext]_vars

(***************************************************************************)
(* The /api/ai route by itself, with or without an OpenAI key.  It starts  *)
(* with no session, or with the session of a client who said hello, just   *)
(* now or 23 hours ago.                                                    *)
(***************************************************************************)
EarlierIdle == {0, 23 * 60}

EarlierObject(idle) ==
  SessionObject(<<SYSTEM_PROMPT, UserMessage("hello"),
                  [role |-> "assistant",
                   content |-> generateIntelligentResponse(Texts["hello"].words)]>>,
                ChatNow0 - idle, ChatNow0 - idle)

AiInit ==
  /\ now = ChatNow0
  /\ ticks = 0
  /\ config = DEFAULT_CONFIG
  /\ googleCalendarId = FALSE
  /\ outlookCalendarId = FALSE
  /\ stored = {}
  /\ invoked = {}
  /\ bk = [c \in Calls |-> IdleCall]
  /\ sl = IdleSlots
  /\ NoChat
  /\ OPENAI_API_KEY \in BOOLEAN
  /\ aiRq = [r \in Requesters |-> IdleAiRequest]
  /\ aiTurns = 0
  /\ \/ /\ aiSessions = [id \in SessionIds |-> NoRef]
        /\ aiObjects = [o \in Refs |-> NoObject]
     \/ \E idle \in EarlierIdle :
          /\ aiSessions = [id \in SessionIds |->
                             IF id = Sid("client", 1) THEN 0 ELSE NoRef]
          /\ aiObjects = [o \in Refs |->
                            IF o = 0 THEN EarlierObject(idle) ELSE NoObject]

AiNext ==
  \/ \E r \in Requesters : POST_ai(r)
  \/ \E minutes \in ElapseSteps : Elapse_ai(minutes)

AiSpec == AiInit /\ [][AiNext]_vars

(***************************************************************************)
(* Bookings and availability together: createBooking past its validation  *)
(* (line 792) for requests on one Wednesday, and getAvailableSlots past    *)
(* its closed-day test (line 750) for that day.                            *)
(***************************************************************************)
SameDayRequests == {r \in AcceptableRequests : r.date = 2}

ServiceInit ==
  /\ now = Now0
  /\ ticks = 0
  /\ config = DEFAULT_CONFIG
  /\ googleCalendarId = FALSE
  /\ outlookCalendarId = FALSE
  /\ stored = {}
  /\ invoked = {}
  /\ bk \in [Calls -> {[IdleCall EXCEPT !.pc = "validated", !.request = r,
                                        !.at = Now0, !.validation = "valid"] :
                        r \in SameDayRequests}]
  /\ sl = [IdleSlots EXCEPT !.pc = "open", !.date = 2, !.duration = 60,
                            !.slotInterval = 30,
                            !.hours = config.businessHours]
  /\ NoChat
  /\ NoAi

ServiceNext ==
  \/ \E c \in Calls : createBooking(c)
  \/ getAvailableSlots
  \/ configureGoogleCalendar
  \/ configureOutlookCalendar

ServiceSpec == ServiceInit /\ [][ServiceNext]_vars

(***************************************************************************)
(* The claims.                                                             *)
(***************************************************************************)
PolicyErrors == {"advance", "max", "closed", "hours"}
Done(c) == bk[c].pc = "done"
Succeeded(c) == Done(c) /\ bk[c].result.status = "success"
Failed(c) == Done(c) /\ bk[c].result.status = "failure"

\* [start, start + duration) of two requests overlap.
WindowsOverlap(r1, r2) ==
  StartOf(r1) < EndOf(r2) /\ StartOf(r2) < EndOf(r1)

C3_SlotsInsideHours ==
  sl.pc = "returned" =>
    \A i \in 1..Len(sl.allSlots) :
      LET slot == sl.allSlots[i]
          h == sl.hours[CalendarWeekday(sl.date)]
      IN  /\ ParseLocal(sl.date, h.open) <= slot.start
          /\ slot.end = slot.start + sl.duration
          /\ slot.end <= ParseLocal(sl.date, h.close)

\* A call has returned slots, the last of them ending at closing time.
C3_Witness ==
  /\ sl.pc = "returned"
  /\ Len(sl.allSlots) > 1
  /\ sl.allSlots[Len(sl.allSlots)].end =
       ParseLocal(sl.date, sl.hours[CalendarWeekday(sl.date)].close)

C5_ClosedDayEmpty ==
  (sl.pc \in {"returned", "threw"} /\ ClosedDay(sl.date, sl.hours))
  => (sl.pc = "returned" /\ sl.allSlots = <<>>)

\* C6: validateBookingRequest accepts a request exactly when the four policy
\* conditions hold (boundaries included).
C6_AcceptIffPolicy ==
  \A c \in Calls :
    bk[c].validation # "none" =>
      (bk[c].validation = "valid"
         <=> PolicyHolds(bk[c].request, bk[c].cfg, bk[c].at))

\* C7: a request that is outside the booking window and outside business
\* hours is given the window failure (too soon before too far), and two calls
\* with the same request, clock and configuration get the same failure.
C7_WindowFailureFirst ==
  /\ \A c \in Calls :
       (/\ Done(c)
        /\ TooSoon(bk[c].request, bk[c].cfg, bk[c].at)
              \/ TooFar(bk[c].request, bk[c].cfg, bk[c].at)
        /\ OutOfHours(bk[c].request, bk[c].cfg))
       => /\ bk[c].validation =
               IF TooSoon(bk[c].request, bk[c].cfg, bk[c].at)
               THEN "advance" ELSE "max"
          /\ bk[c].result = Failure(bk[c].validation)
  /\ \A c1, c2 \in Calls :
       (/\ Done(c1) /\ Done(c2)
        /\ bk[c1].request = bk[c2].request
        /\ bk[c1].at = bk[c2].at
        /\ bk[c1].cfg = bk[c2].cfg)
       => bk[c1].result.error = bk[c2].result.error

\* Two calls were made at one time with one request, beyond the horizon and
\* on a closed day, and got the horizon failure.
C7_Witness ==
  \E c1, c2 \in Calls :
    /\ c1 # c2 /\ Done(c1) /\ Done(c2)
    /\ bk[c1].request = bk[c2].request /\ bk[c1].at = bk[c2].at
    /\ TooFar(bk[c1].request, bk[c1].cfg, bk[c1].at)
    /\ OutOfHours(bk[c1].request, bk[c1].cfg)
    /\ bk[c1].result = Failure("max")

\* C8: a request validateBookingRequest rejects makes createBooking return a
\* failure; no provider is asked to create an event and no event is stored.
C8_InvalidNeverStored ==
  \A c \in Calls :
    bk[c].validation \in PolicyErrors =>
      /\ Failed(c)
      /\ \A i \in invoked : i.call # c
      /\ \A e \in stored : e.by # c

\* A rejected request has come back as a failure.
C8_Witness ==
  \E c \in Calls : bk[c].validation \in PolicyErrors /\ Failed(c)

Answered(r) == rq[r].pc \in {"processed", "done"}
Emits(r, type) == \E i \in DOMAIN rq[r].actions : rq[r].actions[i].type = type
WordsOf(r) == Texts[rq[r].text].words

\* C11: a turn emits create_booking only when the date and the time are
\* filled and the user has confirmed a proposed slot, so only on a session
\* that an earlier turn has brought to the proposals.
C11_BookingAfterConfirmation ==
  \A r \in Requesters :
    (Answered(r) /\ Emits(r, "create_booking")) =>
      /\ hasAllRequiredSlots(rq[r].context.extractedSlots)
      /\ rq[r].existingSession.present
      /\ rq[r].existingSession.context.conversationStage = "booking_confirmation"

\* C12: on a session that holds a booking intent and no slot, a turn giving
\* only the date and then a turn giving only the time leave both slots filled
\* and the engine proposing slots.
C12_SlotFillingConverges ==
  ( /\ rq[1].pc = "done" /\ rq[1].text = "date" /\ rq[1].found = "live"
    /\ rq[1].existingSession.context.extractedSlots = NoSlots
    /\ rq[1].existingSession.context.conversationStage = "slot_gathering"
    /\ rq[2].pc = "done" /\ rq[2].text = "time" /\ rq[2].found = "live"
    /\ rq[2].existingSession.context = rq[1].context )
  => /\ hasAllRequiredSlots(rq[2].context.extractedSlots)
     /\ rq[2].response.kind = "proposals"

\* C13: after a turn every slot that was filled before it is still filled,
\* with the value the turn extracted if it extracted one and with its old
\* value otherwise.
C13_SlotsAccumulate ==
  \A r \in Requesters :
    Answered(r) =>
      LET before == rq[r].existingSession.context.extractedSlots
          after == rq[r].context.extractedSlots
          newSlots == extractSlots(detectIntent(WordsOf(r)), WordsOf(r))
      IN  \A f \in SlotFields :
            before[f] # NULL =>
              /\ after[f] # NULL
              /\ after[f] = IF newSlots[f] # NULL THEN newSlots[f] ELSE before[f]

\* A turn on a session with the date filled has extracted the time and kept
\* the date.
C13_Witness ==
  \E r \in Requesters :
    /\ rq[r].pc = "done"
    /\ rq[r].existingSession.context.extractedSlots.date = "demain"
    /\ rq[r].existingSession.context.extractedSlots.time = NULL
    /\ rq[r].context.extractedSlots.time = "9:00"
    /\ rq[r].context.extractedSlots.date = "demain"

\* C14: a turn never works on a stored session that has been idle for longer
\* than SESSION_MAX_INACTIVE at the time of the request, swept or not.
C14_InactiveNeverUsed ==
  \A r \in Requesters :
    rq[r].existingSession.present =>
      rq[r].now - rq[r].existingSession.lastActivity <= SESSION_MAX_INACTIVE

\* A request found the entry of its session still in the map, idle for too
\* long, and was answered.
C14_Witness ==
  \E r \in Requesters :
    rq[r].pc = "done" /\ rq[r].found = "inactive" /\ rq[r].status = 200

\* C15: a turn never works on a stored session older than SESSION_TTL at the
\* time of the request, and no entry of the map shows activity later than
\* SESSION_TTL after its creation.
C15_AgeCap ==
  /\ \A r \in Requesters :
       rq[r].existingSession.present =>
         rq[r].now - rq[r].existingSession.createdAt <= SESSION_TTL
  /\ \A id \in SessionIds :
       sessions[id].present =>
         sessions[id].lastActivity - sessions[id].createdAt <= SESSION_TTL

\* A request found its session too old, although the session was active
\* less than SESSION_MAX_INACTIVE before.
C15_Witness ==
  \E r \in Requesters :
    /\ rq[r].pc = "done" /\ rq[r].found = "expired"
    /\ rq[r].existingSession.present = FALSE
    /\ rq[r].sessionId = Sid("client", 1)
    /\ rq[r].now - ChatNow0 <= SESSION_MAX_INACTIVE

\* What a turn gives on no context at all.
FreshTurn(r) == Turn(Context(rq[r].n, NULL, NoSlots, "greeting"), WordsOf(r))

\* C16: a request whose session is found expired ends as a request on no
\* session does: status 200, the reply, the actions and the context of a
\* first turn, its own messages only, and an entry created at the time of
\* the request.
C16_ExpiredIsNoContext ==
  [][\A r \in Requesters :
       ( /\ rq[r].pc = "processed" /\ rq'[r].pc = "done"
         /\ rq[r].found \in {"expired", "inactive"} )
       => /\ rq'[r].status = 200
          /\ rq'[r].response = FreshTurn(r).response
          /\ rq'[r].actions = FreshTurn(r).actions
          /\ rq'[r].context = FreshTurn(r).context
          /\ arrays'[rq[r].n] = <<UserMessage(rq[r].text),
                                  AssistantMessage(rq'[r].response)>>
          /\ sessions'[rq[r].sessionId] =
               Session(rq'[r].context, rq[r].now, rq[r].now)]_vars

\* A request on the expired session that held tomorrow's date gave a time,
\* and its context holds the time and no date.
C16_Witness ==
  \E r \in Requesters :
    /\ rq[r].pc = "done" /\ rq[r].found \in {"expired", "inactive"}
    /\ rq[r].text = "bookTime"
    /\ rq[r].context.extractedSlots.date = NULL
    /\ rq[r].context.extractedSlots.time = "9:00"

\* C17: a request with an empty message or one of more than 2000 characters
\* is answered 400 and leaves the session map, the messages and the actions
\* alone.
C17_BadMessageRejected ==
  [][\A r \in Requesters :
       ( /\ rq[r].pc = "idle" /\ rq'[r].pc # "idle" /\ rq'[r].status # 429
         /\ rq'[r].text \in {"empty", "tooLong"} )
       => /\ rq'[r].pc = "done" /\ rq'[r].status = 400
          /\ RouteRejects(Texts[rq'[r].text])
          /\ sessions' = sessions
          /\ arrays' = arrays
          /\ rq'[r].actions = <<>> /\ rq'[r].executed = <<>>]_vars

\* A message of 2001 characters was refused on a session that exists.
C17_Witness ==
  \E r \in Requesters :
    /\ rq[r].pc = "done" /\ rq[r].status = 400 /\ rq[r].text = "tooLong"
    /\ sessions[Sid("client", 1)].present

\* The example's day, a Friday, and its one event, 14:00-15:00.
ExampleDate == 4
ExampleHours == [open |-> <<9, 0>>, close |-> <<18, 0>>]
ExampleAt(h, m) == ParseLocal(ExampleDate, <<h, m>>)

IsExampleCall ==
  /\ sl.date = ExampleDate /\ sl.duration = 60 /\ sl.slotInterval = 30
  /\ "friday" \in DOMAIN sl.hours /\ sl.hours.friday = ExampleHours

SawExampleEvent ==
  /\ Len(sl.existingEvents) = 1
  /\ sl.existingEvents[1].start = ExampleAt(14, 0)
  /\ sl.existingEvents[1].end = ExampleAt(15, 0)

AvailableStarts ==
  {sl.allSlots[i].start : i \in {j \in DOMAIN sl.allSlots : sl.allSlots[j].available}}

\* C18: getAvailableSlots on a Friday open 09:00-18:00, for 60 minutes every
\* 30, with the one event 14:00-15:00, returns slots of which 09:00 is
\* available, 13:30, 14:00 and 14:30 are not, none ends after 18:00 and the
\* last starts at 17:00.
C18_FridayExample ==
  ( /\ IsExampleCall
    /\ sl.pc \in {"returned", "threw"}
    /\ sl.pc = "returned" => SawExampleEvent )
  => /\ sl.pc = "returned"
     /\ ExampleAt(9, 0) \in AvailableStarts
     /\ AvailableStarts \cap {ExampleAt(13, 30), ExampleAt(14, 0),
                              ExampleAt(14, 30)} = {}
     /\ \A i \in DOMAIN sl.allSlots : sl.allSlots[i].end <= ExampleAt(18, 0)
     /\ sl.allSlots[Len(sl.allSlots)].start = ExampleAt(17, 0)

\* C19: "Je voudrais un RDV demain à 14h" on no context gives the booking
\* intent, the date tomorrow and the time 14:00, a reply that asks for
\* nothing more, and the stage slot_confirmation or proposal_generation.
C19_ExampleMessage ==
  \A r \in Requesters :
    (Answered(r) /\ rq[r].text = "example" /\ ~rq[r].existingSession.present)
    => /\ rq[r].context.currentIntent = "prise_rdv"
       /\ rq[r].context.extractedSlots.date = "demain"
       /\ rq[r].context.extractedSlots.time = "14:00"
       /\ rq[r].response.kind \notin {"ask_date", "ask_time", "unclear"}
       /\ rq[r].context.conversationStage \in
            {"slot_confirmation", "proposal_generation"}

\* The context two turns leave when the second is processed on what the
\* first has left, with the messages in that order.
Serial(base, history, first, second) ==
  LET one == Turn(base, Texts[first].words)
      two == Turn(one.context, Texts[second].words)
  IN  [context |-> two.context,
       messages |-> history \o <<UserMessage(first),
                                 AssistantMessage(one.response),
                                 UserMessage(second),
                                 AssistantMessage(two.response)>>]

\* C20: when two requests of one session have both read the stored context
\* before either has written, the context stored once both are answered is
\* the one that the two turns leave in one order or the other.
C20_NoLostUpdate ==
  LET id == rq[1].sessionId
      base == rq[1].existingSession.context
      start == Context(base.messages, NULL, base.extractedSlots,
                       base.conversationStage)
      history == SubSeq(arrays[base.messages], 1,
                        Len(arrays[base.messages]) - 4)
      orders == {Serial(start, history, rq[1].text, rq[2].text),
                 Serial(start, history, rq[2].text, rq[1].text)}
  IN  ( /\ rq[1].pc = "done" /\ rq[1].status = 200
        /\ rq[2].pc = "done" /\ rq[2].status = 200
        /\ rq[2].sessionId = id
        /\ rq[1].existingSession.present
        /\ rq[2].existingSession = rq[1].existingSession
        /\ sessions[id].present )
      => \E order \in orders :
           /\ sessions[id].context = order.context
           /\ arrays[sessions[id].context.messages] = order.messages

\* The events of the call that a slot overlaps, by the spec's definition:
\* the slot starts before the event ends and ends after the event starts.
Hits(slot) ==
  {j \in DOMAIN sl.existingEvents :
     /\ slot.start < sl.existingEvents[j].end
     /\ slot.end > sl.existingEvents[j].start}

SlotCount(open, close, duration, interval) ==
  IF open + duration > close THEN 0
  ELSE (close - open - duration) \div interval + 1

\* C22: for an open day and an interval > 0, getAvailableSlots returns
\* exactly the slots that start at open + k * interval, k = 0, 1, 2, ...,
\* while start + duration <= close, in strictly ascending order of start
\* (none when the duration exceeds close - open).
C22_ExactSlots ==
  ( /\ sl.pc \in {"returned", "threw"}
    /\ sl.slotInterval > 0
    /\ ~ClosedDay(sl.date, sl.hours) )
  => LET h == sl.hours[CalendarWeekday(sl.date)]
         open == ParseLocal(sl.date, h.open)
         close == ParseLocal(sl.date, h.close)
         n == SlotCount(open, close, sl.duration, sl.slotInterval)
     IN  /\ sl.pc = "returned"
         /\ Len(sl.allSlots) = n
         /\ \A i \in 1..n :
              /\ sl.allSlots[i].start = open + (i - 1) * sl.slotInterval
              /\ sl.allSlots[i].end = sl.allSlots[i].start + sl.duration
         /\ \A i, j \in 1..n :
              i < j => sl.allSlots[i].start < sl.allSlots[j].start

Asked(c, p) == [provider |-> p, call |-> c] \in invoked

\* Google before Outlook before the mock, each one tried only when the
\* providers asked before it gave no id.
ProviderOrder(c) ==
  /\ (Asked(c, "google") /\ Asked(c, "outlook")) =>
       (bk[c].answers # <<>> /\ bk[c].answers[1] = "null")
  /\ (Succeeded(c) /\ bk[c].result.eventId.src = "outlook") =>
       (Asked(c, "outlook") /\ bk[c].answers[Len(bk[c].answers)] = "id")
  /\ (Succeeded(c) /\ bk[c].result.eventId.src = "google") =>
       (Asked(c, "google") /\ ~Asked(c, "outlook") /\ bk[c].answers = <<"id">>)
  /\ (Succeeded(c) /\ bk[c].result.eventId.src = "mock") =>
       \A k \in DOMAIN bk[c].answers : bk[c].answers[k] = "null"

\* The call's event is held by exactly one provider, under the id returned.
StoredOnce(c) ==
  /\ Cardinality({e \in stored : e.by = c}) = 1
  /\ \A e \in stored :
       e.by = c => (e.id = bk[c].result.eventId /\ e.source = e.id.src)

Processed(r) ==
  rq[r].pc = "processed" \/ (rq[r].pc = "done" /\ rq[r].status = 200)

\* C25: the stage after a turn is a function of the turn's intent type and
\* of whether date and time are both filled, whatever the stage before: two
\* turns with the same intent type and the same completeness leave the same
\* stage, and the same message processed again on the context a turn has
\* left gives the same stage.
C25_StageIsDerived ==
  /\ \A r1, r2 \in Requesters :
       ( /\ Processed(r1) /\ Processed(r2)
         /\ rq[r1].context.currentIntent = rq[r2].context.currentIntent
         /\ hasAllRequiredSlots(rq[r1].context.extractedSlots)
              = hasAllRequiredSlots(rq[r2].context.extractedSlots) )
       => rq[r1].context.conversationStage = rq[r2].context.conversationStage
  /\ \A r \in Requesters :
       Processed(r) =>
         Turn(rq[r].context, WordsOf(r)).context.conversationStage
           = rq[r].context.conversationStage

\* Two turns of one intent type and one completeness were processed on
\* contexts of different stages, the second on the context the first had
\* left, with the same message.
C25_Witness ==
  /\ Processed(1) /\ Processed(2)
  /\ rq[1].existingSession.present /\ rq[2].existingSession.present
  /\ rq[2].existingSession.context = rq[1].context
  /\ rq[2].text = rq[1].text
  /\ rq[1].existingSession.context.conversationStage
       # rq[1].context.conversationStage
  /\ rq[2].context.conversationStage = rq[1].context.conversationStage

\* The turn of request r is a booking turn that gives a filled slot of the
\* context it is processed on another value: the one way in which a message
\* touches a filled slot.
ReplacesSlot(r) ==
  /\ Processed(r)
  /\ rq[r].existingSession.present
  /\ rq[r].existingSession.context.conversationStage = "booking_confirmation"
  /\ hasAllRequiredSlots(rq[r].existingSession.context.extractedSlots)
  /\ \E f \in {"date", "time"} :
       rq[r].context.extractedSlots[f]
         # rq[r].existingSession.context.extractedSlots[f]

C27_ConfigBounds ==
  /\ config.advanceBookingDays >= 0
  /\ config.maxBookingDays >= config.advanceBookingDays

\* No request has come in after request r for the session of r.
LastOfSession(r) ==
  \A r2 \in Requesters :
    aiRq[r2].n > aiRq[r].n => aiRq[r2].sessionId # aiRq[r].sessionId

\* C28: a request of /api/ai that finds a session idle for more than 24
\* hours works on a session that holds nothing of the old history, and once
\* it is answered the session map holds its session, with the turn's two
\* messages, for the next request.
C28_StaleSessionNotUsed ==
  \A r \in Requesters :
    (aiRq[r].found = "stale" /\ aiRq[r].pc \in {"awaitOpenAI", "done"})
    => /\ aiRq[r].history = <<SYSTEM_PROMPT>>
       /\ aiRq[r].sent \in {<<>>, <<SYSTEM_PROMPT, UserMessage(aiRq[r].text)>>}
       /\ (aiRq[r].pc = "done" /\ LastOfSession(r)) =>
            /\ aiSessions[aiRq[r].sessionId] = aiRq[r].session
            /\ slice(aiObjects[aiRq[r].session].messages, 2) =
                 <<UserMessage(aiRq[r].text),
                   [role |-> "assistant", content |-> aiRq[r].response]>>

====
